---- MODULE Spec2Model ----
(***************************************************************************)
(* A model of the jq conversion pipeline of gomega-matchers                *)
(* (pkg/matchers/jq/jq_converters.go): the converter registry,             *)
(* RegisterConverter, Convert, the ten built-in converters, UnmarshalJSON  *)
(* and the numeric normalizer normalizeForJQ.                              *)
(*                                                                         *)
(* Go values are records with a field k, the dynamic type.  Reference      *)
(* types (maps, slices, pointers) that the caller owns live in a heap and  *)
(* are denoted by a record with an address field a; containers a converter *)
(* has just allocated are written inline (fields m or e) since nothing     *)
(* else refers to them.                                                    *)
(*                                                                         *)
(* Spec calls RegisterConverter and Convert one after the other; SpecL     *)
(* starts Convert from any short registry list; SpecU applies              *)
(* UnmarshalJSON to any short token sequence; SpecN converts one numeric   *)
(* leaf of any integer type; SpecC interleaves the statements of calls     *)
(* made by several goroutines under the registry's sync.RWMutex.           *)
(***************************************************************************)
EXTENDS Integers, Sequences, FiniteSets, TLC

VARIABLES
    converters,   \* the registry list, front first (names of converters)
    heap,         \* caller-owned objects: address -> object
    world,        \* which set of caller values this run works with
    doc,          \* the JSON text used by the text-like values of the run
    intSize,      \* width in bits of the platform's int (32 or 64)
    nreg,         \* number of caller registrations made so far
    lastReg,      \* the converter of the latest RegisterConverter call
    last,         \* the latest Convert call since the latest registration:
                  \* its input, the heap before it and its outcome
    convertersMu, \* the sync.RWMutex guarding the registry
    procs,        \* goroutines calling the package: where each one stands in
                  \* its call, and the call's local variables
    kube          \* the Kubernetes helper: the cluster's copy of the resource,
                  \* the caller's object and the latest helper call

vars == <<converters, heap, world, doc, intSize, nreg, lastReg, last,
          convertersMu, procs, kube>>

-----------------------------------------------------------------------------
(* Bounds *)

\* caller registrations allowed in one run
MaxCustom == 2

-----------------------------------------------------------------------------
(* Integer widths.  TLC integers are 32 bits wide, so every width is       *)
(* divided by WidthScale; the order of all limits (int8 < int16 < int32 <  *)
(* int64, MaxInt < MaxUint, ...) is the same as on the real machine.       *)

WidthScale == 2 * 2

Width(bits) == bits \div WidthScale

RECURSIVE Pow2(_)
Pow2(n) == IF n = 0 THEN 1 ELSE 2 * Pow2(n - 1)

\* math.MinInt, math.MaxInt of a platform whose int has `size` bits
MinInt(size) == 0 - Pow2(Width(size) - 1)
MaxInt(size) == Pow2(Width(size) - 1) - 1

\* int(v): the conversion to the platform int wraps modulo 2^size
ToInt(n, size) ==
    LET span == Pow2(Width(size))
        half == Pow2(Width(size) - 1)
    IN  ((n + half) % span) - half

-----------------------------------------------------------------------------
(* Values *)

NilV == [k |-> "nil"]
NilAddr == 0

IntV(kind, n) == [k |-> kind, n |-> n]
FloatV(kind, lit) == [k |-> kind, f |-> lit]
StrV(s) == [k |-> "string", s |-> s]
BoolV(b) == [k |-> "bool", b |-> b]
Ref(kind, a) == [k |-> kind, a |-> a]
FreshMap(m) == [k |-> "map", m |-> m]
FreshSlice(e) == [k |-> "slice", e |-> e]

IsRef(v) == "a" \in DOMAIN v

EmptyMap == [x \in {} |-> NilV]

\* reflect.TypeOf(v).Kind() for the dynamic types of the model
KindOf(v) ==
    CASE v.k \in {"map", "tmap"} -> "Map"
      [] v.k \in {"slice", "tslice", "bytes", "rawmsg"} -> "Slice"
      [] v.k \in {"gbuf", "reader", "unstrPtr", "unstrList"} -> "Ptr"
      [] v.k \in {"unstr", "struct"} -> "Struct"
      [] OTHER -> "Scalar"

\* the numeric leaf types gojq accepts, and those it does not
CanonicalNumeric == {"int", "float64", "bigint"}
FixedWidthNumeric ==
    {"int8", "int16", "int32", "int64",
     "uint8", "uint16", "uint32", "uint64", "uint", "float32"}

-----------------------------------------------------------------------------
(* Errors: a chain of layers, outermost first; the nil error is <<>>.      *)

NoErr == <<>>
Layer(id, arg) == [id |-> id, arg |-> arg]
NewError(id) == <<Layer(id, NilV)>>
\* fmt.Errorf("...%w", err)
Wrap(id, err) == <<Layer(id, NilV)>> \o err

ErrTypeNotSupported == NewError("type not supported by this converter")

\* a comparison by identity, which a wrapped sentinel does not pass
ErrorsIsIdentity(err, target) == err = target

\* errors.Is(err, target) for a target that is a single sentinel layer
ErrorsIs(err, target) == \E i \in 1..Len(err) : err[i] = target[1]

-----------------------------------------------------------------------------
(* JSON documents are sequences of tokens.  json.Unmarshal into an `any`   *)
(* builds map[string]any, []any, float64, string, bool and nil.            *)

StrToks == {"\"a\"", "\"b\""}
NumToks == {"1", "2", "1.5"}

\* the text of a string literal without its quotes
StrOf(t) == IF t = "\"a\"" THEN "a" ELSE "b"

POk(v, rest) == [ok |-> TRUE, v |-> v, rest |-> rest]
PFail == [ok |-> FALSE, v |-> NilV, rest |-> <<>>]

\* the map m with key set to v (a later duplicate key replaces the earlier)
MapPut(m, key, v) ==
    [x \in (DOMAIN m) \cup {key} |-> IF x = key THEN v ELSE m[x]]

RECURSIVE PValue(_), PMembers(_, _), PElems(_, _)

PValue(ts) ==
    IF ts = <<>> THEN PFail
    ELSE LET t == Head(ts)
             r == Tail(ts)
         IN  CASE t = "{" ->
                    IF r # <<>> /\ Head(r) = "}"
                    THEN POk(FreshMap(EmptyMap), Tail(r))
                    ELSE PMembers(r, EmptyMap)
               [] t = "[" ->
                    IF r # <<>> /\ Head(r) = "]"
                    THEN POk(FreshSlice(<<>>), Tail(r))
                    ELSE PElems(r, <<>>)
               [] t \in StrToks -> POk(StrV(<<StrOf(t)>>), r)
               [] t \in NumToks -> POk(FloatV("float64", t), r)
               [] t = "true" -> POk(BoolV(TRUE), r)
               [] t = "false" -> POk(BoolV(FALSE), r)
               [] t = "null" -> POk(NilV, r)
               [] OTHER -> PFail

\* after "{" or ",": key ":" value, then "," or "}"
PMembers(ts, m) ==
    IF Len(ts) < 3 \/ ~(ts[1] \in StrToks) \/ ts[2] # ":" THEN PFail
    ELSE LET pv == PValue(SubSeq(ts, 3, Len(ts)))
         IN  IF ~pv.ok \/ pv.rest = <<>> THEN PFail
             ELSE LET m2 == MapPut(m, StrOf(ts[1]), pv.v)
                  IN  CASE Head(pv.rest) = "}" -> POk(FreshMap(m2), Tail(pv.rest))
                        [] Head(pv.rest) = "," -> PMembers(Tail(pv.rest), m2)
                        [] OTHER -> PFail

\* after "[" or ",": value, then "," or "]"
PElems(ts, e) ==
    LET pv == PValue(ts)
    IN  IF ~pv.ok \/ pv.rest = <<>> THEN PFail
        ELSE LET e2 == Append(e, pv.v)
             IN  CASE Head(pv.rest) = "]" -> POk(FreshSlice(e2), Tail(pv.rest))
                   [] Head(pv.rest) = "," -> PElems(Tail(pv.rest), e2)
                   [] OTHER -> PFail

\* json.Unmarshal(in, &result): the whole input must be one value
JsonUnmarshal(in) ==
    LET pv == PValue(in)
    IN  IF pv.ok /\ pv.rest = <<>>
        THEN [val |-> pv.v, err |-> NoErr]
        ELSE [val |-> NilV, err |-> NewError("json: syntax error")]

ErrEmptyDocument == NewError("a valid Json document is expected")
ErrNotContainer == NewError("a Json Array or Object is required")

\* a decoder without the test for empty input
UnmarshalJSONNoEmptyCheck(in) ==
    LET r == JsonUnmarshal(in)
    IN  IF r.err # NoErr
        THEN [val |-> NilV, err |-> Wrap("unable to unmarshal result", r.err)]
        ELSE IF KindOf(r.val) \in {"Map", "Slice"}
        THEN [val |-> r.val, err |-> NoErr]
        ELSE [val |-> NilV, err |-> ErrNotContainer]

UnmarshalJSON(in) ==
    IF Len(in) = 0 THEN [val |-> NilV, err |-> ErrEmptyDocument]
    ELSE LET r == JsonUnmarshal(in)
         IN  IF r.err # NoErr
             THEN [val |-> NilV, err |-> Wrap("unable to unmarshal result", r.err)]
             ELSE IF r.val = NilV
             THEN [val |-> NilV, err |-> ErrNotContainer]
             ELSE IF KindOf(r.val) \in {"Map", "Slice"}
             THEN [val |-> r.val, err |-> NoErr]
             ELSE [val |-> NilV, err |-> ErrNotContainer]

\* the documents of the model
DocObject == <<"{", "\"a\"", ":", "1", "}">>
DocArray == <<"[", "\"a\"", ",", "\"b\"", "]">>
DocNumber == <<"2">>
DocBad == <<"{", "\"a\"", ":", "}">>
DocEmpty == <<>>
Docs == {DocObject, DocArray, DocNumber, DocBad, DocEmpty}

-----------------------------------------------------------------------------
(* The numeric normalizer *)

\* a normalizer that casts an int64 to int without the range check
normalizeSignedIntUnchecked(v, size) ==
    CASE v.k \in {"int64", "int32", "int16", "int8"} -> IntV("int", ToInt(v.n, size))
      [] OTHER -> v

normalizeSignedInt(v, size) ==
    CASE v.k = "int64" ->
            IF v.n >= MinInt(size) /\ v.n <= MaxInt(size)
            THEN IntV("int", ToInt(v.n, size))
            ELSE IntV("bigint", v.n)
      [] v.k \in {"int32", "int16", "int8"} -> IntV("int", ToInt(v.n, size))
      [] OTHER -> v

\* a normalizer that casts the narrow unsigned types to int64 instead of int
normalizeUnsignedIntAsInt64(v, size) ==
    CASE v.k \in {"uint64", "uint"} ->
            IF v.n <= MaxInt(size)
            THEN IntV("int", ToInt(v.n, size))
            ELSE IntV("bigint", v.n)
      [] v.k \in {"uint32", "uint16", "uint8"} -> IntV("int64", v.n)
      [] OTHER -> v

normalizeUnsignedInt(v, size) ==
    CASE v.k \in {"uint64", "uint"} ->
            IF v.n <= MaxInt(size)
            THEN IntV("int", ToInt(v.n, size))
            ELSE IntV("bigint", v.n)
      [] v.k \in {"uint32", "uint16", "uint8"} -> IntV("int", ToInt(v.n, size))
      [] OTHER -> v

\* a normalizer that turns a float64 holding an integer literal into an int
normalizeNumericIntegral(v, size) ==
    CASE v.k \in {"int64", "int32", "int16", "int8"} -> normalizeSignedInt(v, size)
      [] v.k \in {"uint64", "uint32", "uint16", "uint8", "uint"} ->
            normalizeUnsignedInt(v, size)
      [] v.k = "float32" -> FloatV("float64", v.f)
      [] v.k = "float64" /\ v.f \in {"1", "2"} ->
            IntV("int", IF v.f = "1" THEN 1 ELSE 2)
      [] OTHER -> v

\* a normalizer that also turns a bool into an int
normalizeNumericCoercingBool(v, size) ==
    CASE v.k \in {"int64", "int32", "int16", "int8"} -> normalizeSignedInt(v, size)
      [] v.k \in {"uint64", "uint32", "uint16", "uint8", "uint"} ->
            normalizeUnsignedInt(v, size)
      [] v.k = "float32" -> FloatV("float64", v.f)
      [] v.k = "bool" -> IntV("int", IF v.b THEN 1 ELSE 0)
      [] OTHER -> v

normalizeNumeric(v, size) ==
    CASE v.k \in {"int64", "int32", "int16", "int8"} -> normalizeSignedInt(v, size)
      [] v.k \in {"uint64", "uint32", "uint16", "uint8", "uint"} ->
            normalizeUnsignedInt(v, size)
      [] v.k = "float32" -> FloatV("float64", v.f)
      [] OTHER -> v

\* normalizeForJQ(v) on heap h: the normalized value and the heap it leaves.
\* Only map[string]any and []any are entered, and their elements are
\* overwritten in place; a caller-owned container is changed in the heap.
RECURSIVE normalizeForJQ(_, _, _), NormMapEntries(_, _, _, _), NormElems(_, _, _, _)

NormMapEntries(m, keys, h, size) ==
    IF keys = {} THEN [c |-> m, h |-> h]
    ELSE LET key == CHOOSE x \in keys : TRUE
             r == normalizeForJQ(m[key], h, size)
         IN  NormMapEntries([m EXCEPT ![key] = r.v], keys \ {key}, r.h, size)

NormElems(e, i, h, size) ==
    IF i > Len(e) THEN [c |-> e, h |-> h]
    ELSE LET r == normalizeForJQ(e[i], h, size)
         IN  NormElems([e EXCEPT ![i] = r.v], i + 1, r.h, size)

normalizeForJQ(v, h, size) ==
    CASE v.k = "map" ->
            IF IsRef(v)
            THEN IF v.a = NilAddr THEN [v |-> v, h |-> h]
                 ELSE LET r == NormMapEntries(h[v.a].m, DOMAIN h[v.a].m, h, size)
                      IN  [v |-> v, h |-> [r.h EXCEPT ![v.a].m = r.c]]
            ELSE LET r == NormMapEntries(v.m, DOMAIN v.m, h, size)
                 IN  [v |-> [v EXCEPT !.m = r.c], h |-> r.h]
      [] v.k = "slice" ->
            IF IsRef(v)
            THEN IF v.a = NilAddr THEN [v |-> v, h |-> h]
                 ELSE LET r == NormElems(h[v.a].e, 1, h, size)
                      IN  [v |-> v, h |-> [r.h EXCEPT ![v.a].e = r.c]]
            ELSE LET r == NormElems(v.e, 1, h, size)
                 IN  [v |-> [v EXCEPT !.e = r.c], h |-> r.h]
      [] OTHER -> [v |-> normalizeNumeric(v, size), h |-> h]

\* the value with every reference replaced by what it refers to in h
RECURSIVE Deref(_, _)
Deref(v, h) ==
    IF "a" \in DOMAIN v
    THEN IF v.a = NilAddr THEN v
         ELSE LET o == h[v.a]
              IN  CASE "m" \in DOMAIN o ->
                          [k |-> v.k, m |-> [x \in DOMAIN o.m |-> Deref(o.m[x], h)]]
                    [] "e" \in DOMAIN o ->
                          [k |-> v.k, e |-> [i \in DOMAIN o.e |-> Deref(o.e[i], h)]]
                    [] OTHER -> [k |-> v.k, o |-> o]
    ELSE CASE "m" \in DOMAIN v -> [v EXCEPT !.m = [x \in DOMAIN v.m |-> Deref(v.m[x], h)]]
           [] "e" \in DOMAIN v -> [v EXCEPT !.e = [i \in DOMAIN v.e |-> Deref(v.e[i], h)]]
           [] "items" \in DOMAIN v ->
                 [v EXCEPT !.items = [i \in DOMAIN v.items |-> Deref(v.items[i], h)]]
           [] "obj" \in DOMAIN v -> [v EXCEPT !.obj = Deref(v.obj, h)]
           [] OTHER -> v

-----------------------------------------------------------------------------
(* Converters.  A converter's outcome is a value and an error, the heap it *)
(* leaves, and whether it panicked instead of returning.                   *)

Returned(val, err, h) == [val |-> val, err |-> err, h |-> h, panic |-> FALSE]
Panicked(h) == [val |-> NilV, err |-> NoErr, h |-> h, panic |-> TRUE]
NotSupported(h) == Returned(NilV, ErrTypeNotSupported, h)
Decoded(r, h) == Returned(r.val, r.err, h)

StringConverter(in, h) ==
    IF in.k # "string" THEN NotSupported(h)
    ELSE Decoded(UnmarshalJSON(in.s), h)

ByteSliceConverter(in, h) ==
    IF in.k # "bytes" THEN NotSupported(h)
    ELSE Decoded(UnmarshalJSON(in.s), h)

RawMessageConverter(in, h) ==
    IF in.k # "rawmsg" THEN NotSupported(h)
    ELSE Decoded(UnmarshalJSON(in.s), h)

\* (*gbytes.Buffer).Contents(): everything written so far, whatever was read
GBytesBufferConverter(in, h) ==
    IF in.k # "gbuf" THEN NotSupported(h)
    ELSE Decoded(UnmarshalJSON(h[in.a].contents), h)

\* the types of the model that have a Read method
IsReader(in) == in.k \in {"reader", "gbuf"}

\* io.ReadAll(v): the bytes from the read position on, or the reader's error;
\* the reader is left at its end
ReadAll(in, h) ==
    LET o == h[in.a]
    IN  IF in.k = "gbuf"
        THEN [data |-> SubSeq(o.contents, o.readCursor + 1, Len(o.contents)),
              err |-> NoErr,
              h |-> [h EXCEPT ![in.a].readCursor = Len(o.contents)]]
        ELSE IF o.bad
        THEN [data |-> <<>>, err |-> NewError("read failed"), h |-> h]
        ELSE [data |-> SubSeq(o.data, o.pos + 1, Len(o.data)),
              err |-> NoErr,
              h |-> [h EXCEPT ![in.a].pos = Len(o.data)]]

ReaderConverter(in, h) ==
    IF ~IsReader(in) THEN NotSupported(h)
    ELSE LET r == ReadAll(in, h)
         IN  IF r.err # NoErr
             THEN Returned(NilV, Wrap("failed to read from reader", r.err), r.h)
             ELSE Decoded(UnmarshalJSON(r.data), r.h)

\* a converter that returns a copy of the object's mapping
UnstructuredConverterCopy(in, h) ==
    IF in.k # "unstr" THEN NotSupported(h)
    ELSE Returned(Deref(in.obj, h), NoErr, h)

UnstructuredConverter(in, h) ==
    IF in.k # "unstr" THEN NotSupported(h)
    ELSE Returned(in.obj, NoErr, h)

UnstructuredPtrConverter(in, h) ==
    IF in.k # "unstrPtr" THEN NotSupported(h)
    ELSE Returned(in.obj, NoErr, h)

UnstructuredListPtrConverter(in, h) ==
    IF in.k # "unstrList" THEN NotSupported(h)
    ELSE Returned(FreshSlice(in.items), NoErr, h)

\* reflect.TypeOf(nil) is nil, and calling Kind on it panics
MapConverter(in, h) ==
    IF in = NilV THEN Panicked(h)
    ELSE IF KindOf(in) # "Map" THEN NotSupported(h)
    ELSE Returned(in, NoErr, h)

SliceConverter(in, h) ==
    IF in = NilV THEN Panicked(h)
    ELSE IF KindOf(in) # "Slice" THEN NotSupported(h)
    ELSE IF in.k = "bytes" THEN NotSupported(h)
    ELSE Returned(in, NoErr, h)

\* the built-in converters in the order registerBuiltinConverters names them
Builtins ==
    <<"StringConverter", "ByteSliceConverter", "RawMessageConverter",
      "GBytesBufferConverter", "ReaderConverter", "UnstructuredConverter",
      "UnstructuredPtrConverter", "UnstructuredListPtrConverter",
      "MapConverter", "SliceConverter">>

(* Converters a caller registers, after those of the repository's tests:   *)
(* each claims one dynamic type and answers the sentinel for every other.  *)
customErr == NewError("custom conversion error")

CustomConverters == {"PersonOk", "PersonErr", "PersonWrapped", "StringOverride"}

CustomType(c) ==
    CASE c \in {"PersonOk", "PersonErr", "PersonWrapped"} -> "struct"
      [] c = "StringOverride" -> "string"

CustomConverter(c, in, h) ==
    IF in.k # CustomType(c) THEN NotSupported(h)
    ELSE CASE c = "PersonOk" ->
                Returned(FreshMap([age |-> IntV("int64", 30), name |-> StrV(<<"a">>)]),
                         NoErr, h)
           [] c = "PersonErr" -> Returned(NilV, customErr, h)
           [] c = "PersonWrapped" ->
                Returned(NilV, Wrap("not a person", ErrTypeNotSupported), h)
           [] c = "StringOverride" ->
                Returned(FreshMap([custom |-> StrV(<<"override">>)]), NoErr, h)

\* converter(in) for the converter named c
Apply(c, in, h) ==
    CASE c = "StringConverter" -> StringConverter(in, h)
      [] c = "ByteSliceConverter" -> ByteSliceConverter(in, h)
      [] c = "RawMessageConverter" -> RawMessageConverter(in, h)
      [] c = "GBytesBufferConverter" -> GBytesBufferConverter(in, h)
      [] c = "ReaderConverter" -> ReaderConverter(in, h)
      [] c = "UnstructuredConverter" -> UnstructuredConverter(in, h)
      [] c = "UnstructuredPtrConverter" -> UnstructuredPtrConverter(in, h)
      [] c = "UnstructuredListPtrConverter" -> UnstructuredListPtrConverter(in, h)
      [] c = "MapConverter" -> MapConverter(in, h)
      [] c = "SliceConverter" -> SliceConverter(in, h)
      [] OTHER -> CustomConverter(c, in, h)

-----------------------------------------------------------------------------
(* The registry and Convert *)

\* a registration that appends the converter at the back
PrependAtBack(converter, list) == Append(list, converter)

\* a registration that puts the converter in the place of the front one
PrependReplacingFront(converter, list) ==
    IF list = <<>> THEN <<converter>> ELSE <<converter>> \o Tail(list)

\* RegisterConverter: converters = append([]ConverterFunc{converter}, converters...)
Prepend(converter, list) == <<converter>> \o list

RECURSIVE RegisterAll(_, _)
\* RegisterConverter called for each name of `names` in turn, starting from list
RegisterAll(names, list) ==
    IF names = <<>> THEN list
    ELSE RegisterAll(Tail(names), Prepend(Head(names), list))

\* init(): the registry once registerBuiltinConverters has run
registerBuiltinConverters == RegisterAll(Builtins, <<>>)

\* an "unsuported type" error that wraps the sentinel of the last converter
UnsupportedErrorWrapping(in, h) ==
    <<Layer("unsuported type", Deref(in, h))>> \o ErrTypeNotSupported

\* fmt.Errorf("unsuported type:\n%s", format.Object(in, 1)): the value is
\* formatted into the message, nothing is wrapped
UnsupportedError(in, h) == <<Layer("unsuported type", Deref(in, h))>>

\* a loop that goes on invoking the remaining converters after a success
RECURSIVE ConvertFromNoBreak(_, _, _, _, _, _)
ConvertFromNoBreak(list, i, in, h, size, tried) ==
    IF i > Len(list)
    THEN [val |-> NilV, err |-> UnsupportedError(in, h), h |-> h,
          panic |-> FALSE, tried |-> tried]
    ELSE LET r == Apply(list[i], in, h)
             t == Append(tried, list[i])
         IN  IF r.panic
             THEN [val |-> NilV, err |-> NoErr, h |-> r.h, panic |-> TRUE, tried |-> t]
             ELSE IF r.err = NoErr
             THEN LET n == normalizeForJQ(r.val, r.h, size)
                      rest == ConvertFromNoBreak(list, i + 1, in, n.h, size, t)
                  IN  [val |-> n.v, err |-> NoErr, h |-> n.h,
                       panic |-> FALSE, tried |-> rest.tried]
             ELSE IF ~ErrorsIs(r.err, ErrTypeNotSupported)
             THEN [val |-> NilV, err |-> r.err, h |-> r.h, panic |-> FALSE, tried |-> t]
             ELSE ConvertFromNoBreak(list, i + 1, in, r.h, size, t)

\* a loop that takes every error for "try the next converter"
RECURSIVE ConvertFromSwallow(_, _, _, _, _, _)
ConvertFromSwallow(list, i, in, h, size, tried) ==
    IF i > Len(list)
    THEN [val |-> NilV, err |-> UnsupportedError(in, h), h |-> h,
          panic |-> FALSE, tried |-> tried]
    ELSE LET r == Apply(list[i], in, h)
             t == Append(tried, list[i])
         IN  IF r.panic
             THEN [val |-> NilV, err |-> NoErr, h |-> r.h, panic |-> TRUE, tried |-> t]
             ELSE IF r.err = NoErr
             THEN LET n == normalizeForJQ(r.val, r.h, size)
                  IN  [val |-> n.v, err |-> NoErr, h |-> n.h,
                       panic |-> FALSE, tried |-> t]
             ELSE ConvertFromSwallow(list, i + 1, in, r.h, size, t)

\* the loop of Convert from position i of list on; tried lists the converters
\* invoked so far
RECURSIVE ConvertFrom(_, _, _, _, _, _)
ConvertFrom(list, i, in, h, size, tried) ==
    IF i > Len(list)
    THEN [val |-> NilV, err |-> UnsupportedError(in, h), h |-> h,
          panic |-> FALSE, tried |-> tried]
    ELSE LET r == Apply(list[i], in, h)
             t == Append(tried, list[i])
         IN  IF r.panic
             THEN [val |-> NilV, err |-> NoErr, h |-> r.h, panic |-> TRUE, tried |-> t]
             ELSE IF r.err = NoErr
             THEN LET n == normalizeForJQ(r.val, r.h, size)
                  IN  [val |-> n.v, err |-> NoErr, h |-> n.h,
                       panic |-> FALSE, tried |-> t]
             ELSE IF ~ErrorsIs(r.err, ErrTypeNotSupported)
             THEN [val |-> NilV, err |-> r.err, h |-> r.h, panic |-> FALSE, tried |-> t]
             ELSE ConvertFrom(list, i + 1, in, r.h, size, t)

\* Convert(in) with the registry holding list
ConvertOver(list, in, h, size) == ConvertFrom(list, 1, in, h, size, <<>>)

-----------------------------------------------------------------------------
(* The caller's values.  Each run works with one family of values sharing  *)
(* a heap: text-like values over one document, loosely-typed Kubernetes    *)
(* objects, or typed containers and unsupported values.                    *)

Worlds == {"docs", "k8s", "typed"}

WorldHeap(w, d) ==
    CASE w = "docs" ->
            <<[contents |-> d, readCursor |-> 0],
              [data |-> d, pos |-> 0, bad |-> FALSE],
              [data |-> d, pos |-> 0, bad |-> TRUE]>>
      [] w = "k8s" ->
            <<[m |-> [replicas |-> IntV("int64", 3), ports |-> Ref("slice", 2)]],
              [e |-> <<IntV("int32", 80), IntV("uint16", 15), FloatV("float32", "1.5"),
                       StrV(<<"a">>)>>],
              [m |-> [generation |-> IntV("int64", MaxInt(64)),
                      uid |-> IntV("uint64", MaxInt(64) + 1),
                      count |-> IntV("int", 1)]]>>
      [] w = "typed" ->
            <<[m |-> [n |-> IntV("int64", 7)]],
              [e |-> <<IntV("int64", 1), IntV("int64", 2)>>],
              [m |-> [c |-> Ref("tslice", 2), d |-> IntV("int8", 1)]]>>

WorldInputs(w, d) ==
    CASE w = "docs" ->
            {StrV(d), [k |-> "bytes", s |-> d], [k |-> "rawmsg", s |-> d],
             Ref("gbuf", 1), Ref("reader", 2), Ref("reader", 3)}
      [] w = "k8s" ->
            {[k |-> "unstr", obj |-> Ref("map", 1)],
             [k |-> "unstr", obj |-> Ref("map", NilAddr)],
             [k |-> "unstrPtr", obj |-> Ref("map", 3)],
             [k |-> "unstrList", items |-> <<Ref("map", 1), Ref("map", 3)>>],
             Ref("map", 1), Ref("slice", 2)}
      [] w = "typed" ->
            {Ref("tmap", 1), Ref("tslice", 2), Ref("map", 3), NilV,
             IntV("int", 42), [k |-> "struct", ty |-> "Person"]}

NoCall == [called |-> FALSE]

-----------------------------------------------------------------------------
(* Goroutines and the registry's sync.RWMutex.  w is the goroutine that    *)
(* has called Lock and not yet Unlock (0 when there is none), active tells *)
(* whether it holds the lock or still waits for the readers to leave, and  *)
(* readers are the goroutines holding a read lock.                         *)

\* goroutines calling the package at the same time
NumThreads == 2

Threads == 1..NumThreads

NoThread == 0

Unlocked == [w |-> NoThread, active |-> FALSE, readers |-> {}]

Idle == [pc |-> "idle"]

AllIdle == [t \in Threads |-> Idle]

\* no Kubernetes client in use
NoCluster == [used |-> FALSE]

\* the sequential calls of the model take and release the lock in one step,
\* and the jq package does not touch the cluster
Sequential == <<convertersMu, procs, kube>>

Init ==
    /\ converters = registerBuiltinConverters
    /\ world \in Worlds
    /\ doc \in (IF world = "docs" THEN Docs ELSE {DocEmpty})
    /\ heap = WorldHeap(world, doc)
    /\ intSize \in {32, 64}
    /\ nreg = 0
    /\ lastReg = Builtins[Len(Builtins)]
    /\ last = NoCall
    /\ convertersMu = Unlocked
    /\ procs = AllIdle
    /\ kube = NoCluster

RegisterConverter(converter) ==
    /\ nreg < MaxCustom
    /\ converters' = Prepend(converter, converters)
    /\ nreg' = nreg + 1
    /\ lastReg' = converter
    /\ last' = NoCall
    /\ UNCHANGED <<heap, world, doc, intSize>>
    /\ UNCHANGED Sequential

Convert(in) ==
    /\ last' = [called |-> TRUE, in |-> in, pre |-> heap,
                out |-> ConvertOver(converters, in, heap, intSize)]
    /\ heap' = last'.out.h
    /\ UNCHANGED <<converters, world, doc, intSize, nreg, lastReg>>
    /\ UNCHANGED Sequential

Next ==
    \/ \E c \in CustomConverters : RegisterConverter(c)
    \/ \E in \in WorldInputs(world, doc) : Convert(in)

Spec == Init /\ [][Next]_vars

-----------------------------------------------------------------------------
(* Convert as a function of the list: the registry starts out holding any  *)
(* list of at most MaxList converters of ListAlphabet, and only Convert is *)
(* called.                                                                 *)

\* longest list the registry starts with
MaxList == 2

ListAlphabet ==
    {"StringConverter", "GBytesBufferConverter", "ReaderConverter",
     "UnstructuredConverter", "MapConverter",
     "PersonOk", "PersonErr", "PersonWrapped"}

Lists == UNION {[1..n -> ListAlphabet] : n \in 0..MaxList}

InitL ==
    /\ converters \in Lists
    /\ world \in Worlds
    /\ doc \in (IF world = "docs" THEN {DocObject, DocEmpty} ELSE {DocEmpty})
    /\ heap = WorldHeap(world, doc)
    /\ intSize = 64
    /\ nreg = 0
    /\ lastReg = IF converters = <<>> THEN "" ELSE converters[1]
    /\ last = NoCall
    /\ convertersMu = Unlocked
    /\ procs = AllIdle
    /\ kube = NoCluster

NextL == \E in \in WorldInputs(world, doc) : Convert(in)

SpecL == InitL /\ [][NextL]_vars

-----------------------------------------------------------------------------
(* What a caller observes of an outcome: the value with its contents as    *)
(* they are when Convert returns, the error, and whether it panicked.      *)

Observed(out) ==
    [val |-> Deref(out.val, out.h), err |-> out.err, panic |-> out.panic]

\* err is the sentinel or wraps it
IsSentinel(err) ==
    \E i \in 1..Len(err) : err[i] = Layer("type not supported by this converter", NilV)

\* the converter's answer to the input of the latest call, on the heap before it
AnswerOf(c) == Apply(c, last.in, last.pre)

Skips(c) == ~AnswerOf(c).panic /\ IsSentinel(AnswerOf(c).err)

\* position of the first converter of the registry that does not answer the
\* sentinel to the latest call's input, 0 when all of them do
Decisive ==
    IF \A i \in 1..Len(converters) : Skips(converters[i]) THEN 0
    ELSE CHOOSE i \in 1..Len(converters) :
            /\ ~Skips(converters[i])
            /\ \A j \in 1..(i - 1) : Skips(converters[j])

\* what Convert is to return when converter c answers r without the sentinel
Expected(r) ==
    IF r.err = NoErr
    THEN LET n == normalizeForJQ(r.val, r.h, intSize)
         IN  [val |-> Deref(n.v, n.h), err |-> NoErr, panic |-> FALSE]
    ELSE [val |-> NilV, err |-> r.err, panic |-> FALSE]

-----------------------------------------------------------------------------
(* C1: after RegisterConverter(f) and with no later registration,          *)
(* Convert(v), for a v to which f does not answer the sentinel, yields f's *)
(* outcome (its result normalized, or its error), whatever the converters  *)
(* registered before f would have answered.                                *)
C1_OverridePrecedence ==
    (last.called /\ ~Skips(lastReg) /\ ~AnswerOf(lastReg).panic)
        => Observed(last.out) = Expected(AnswerOf(lastReg))

\* a caller's converter for text has returned its own mapping for a document
\* that the built-in text converter decodes
C1_Witness ==
    /\ last.called
    /\ lastReg = "StringOverride"
    /\ last.in = StrV(DocObject)
    /\ StringConverter(last.in, last.pre).err = NoErr
    /\ last.out.err = NoErr
    /\ "custom" \in DOMAIN last.out.val.m

(* C2: Convert invokes the converters in list order, front first, and at   *)
(* the first one that returns success returns its normalized result; no    *)
(* converter after it is invoked.                                          *)
C2_FirstSuccessWins ==
    last.called =>
        /\ last.out.tried = SubSeq(converters, 1, Len(last.out.tried))
        /\ (Decisive > 0 /\ ~AnswerOf(converters[Decisive]).panic
                /\ AnswerOf(converters[Decisive]).err = NoErr)
            => /\ Len(last.out.tried) = Decisive
               /\ Observed(last.out) = Expected(AnswerOf(converters[Decisive]))

\* a success at a converter that is neither first nor last in the list
C2_Witness ==
    /\ last.called
    /\ last.out.err = NoErr
    /\ ~last.out.panic
    /\ Len(last.out.tried) > 1
    /\ Len(last.out.tried) < Len(converters)

(* C3: when a converter returns an error that is not the sentinel, Convert *)
(* returns that error (or one wrapping it) and no value, and invokes no    *)
(* converter after it.                                                     *)
C3_ErrorPropagates ==
    (last.called /\ Decisive > 0 /\ ~AnswerOf(converters[Decisive]).panic
        /\ AnswerOf(converters[Decisive]).err # NoErr)
        => LET e == AnswerOf(converters[Decisive]).err
               got == last.out.err
           IN  /\ Len(got) >= Len(e)
               /\ SubSeq(got, Len(got) - Len(e) + 1, Len(got)) = e
               /\ last.out.val = NilV
               /\ ~last.out.panic
               /\ Len(last.out.tried) = Decisive
               /\ last.out.tried = SubSeq(converters, 1, Decisive)

\* a caller's converter has failed while converters remain after it
C3_Witness ==
    /\ last.called
    /\ last.out.err = customErr
    /\ Len(last.out.tried) < Len(converters)

(* C4: a converter that answers the sentinel, itself or wrapped, counts    *)
(* as absent: Convert over the list gives the result and the error that    *)
(* Convert gives over the list without the converters that answer it.      *)
C4_SentinelPassThrough ==
    last.called =>
        LET kept == SelectSeq(converters, LAMBDA c : ~Skips(c))
        IN  Observed(ConvertOver(kept, last.in, last.pre, intSize)) = Observed(last.out)

\* a converter wrapping the sentinel stood before the one that succeeded
C4_Witness ==
    /\ last.called
    /\ Len(converters) = 2
    /\ converters[1] = "PersonWrapped"
    /\ last.in.k = "struct"
    /\ last.out.err = NoErr
    /\ Len(last.out.tried) = 2

(* C5: when every converter answers the sentinel (an empty registry        *)
(* included) Convert fails with the "unsuported type" error describing the *)
(* value; no error Convert returns is or wraps the sentinel.               *)
C5_UnsupportedType ==
    last.called =>
        /\ ~IsSentinel(last.out.err)
        /\ Decisive = 0
            => /\ last.out.err = <<Layer("unsuported type", Deref(last.in, last.pre))>>
               /\ last.out.val = NilV
               /\ ~last.out.panic

\* the only converter answered with a wrapped sentinel
C5_Witness ==
    /\ last.called
    /\ converters = <<"PersonWrapped">>
    /\ last.in.k = "struct"
    /\ last.out.err # NoErr
    /\ last.out.tried = <<"PersonWrapped">>

(* C6: before any caller registration, Convert tries the built-in          *)
(* converters in the documented order: text, raw bytes, raw JSON, buffered *)
(* capture, readable stream, domain object by value, by reference, domain  *)
(* list, mapping pass-through, sequence pass-through.                      *)
C6_DefaultOrder ==
    (last.called /\ nreg = 0)
        => last.out.tried = SubSeq(Builtins, 1, Len(last.out.tried))

(* C7: with only the built-in converters, Convert of a json.RawMessage     *)
(* holding a JSON object or array returns the decoded mapping or sequence, *)
(* the result Convert gives for the same bytes as text or as []byte, and   *)
(* the sequence pass-through converter does not claim it.                  *)
C7_RawJSONDecoded ==
    (last.called /\ nreg = 0 /\ last.in.k = "rawmsg"
        /\ UnmarshalJSON(last.in.s).err = NoErr)
        => /\ Observed(last.out)
                = Observed(ConvertOver(converters, StrV(last.in.s), last.pre, intSize))
           /\ Observed(last.out)
                = Observed(ConvertOver(converters, [k |-> "bytes", s |-> last.in.s],
                                       last.pre, intSize))
           /\ IsSentinel(SliceConverter(last.in, last.pre).err)

(* C8: with only the built-in converters, Convert of a *gbytes.Buffer      *)
(* decodes a snapshot of its contents: contents and read position are as   *)
(* before the call, and a second Convert of the buffer returns the same    *)
(* result.                                                                 *)
C8_BufferSnapshot ==
    (last.called /\ nreg = 0 /\ last.in.k = "gbuf")
        => /\ heap[last.in.a] = last.pre[last.in.a]
           /\ Observed(ConvertOver(converters, last.in, heap, intSize))
                = Observed(last.out)

(* C9: for every list and value, two Convert calls on the value with no    *)
(* registration in between yield the same outcome.                         *)
C9_Repeatable ==
    [][(last.called /\ last'.called /\ last'.in = last.in)
        => Observed(last'.out) = Observed(last.out)]_vars

(* C9 as amended: the same, for values that have no Read method (a stream  *)
(* is consumed by the call that converts it).                              *)
C9_RepeatableUnlessStream ==
    [][(last.called /\ last'.called /\ last'.in = last.in /\ ~IsReader(last.in))
        => Observed(last'.out) = Observed(last.out)]_vars

\* a second successful Convert of a mapping the first one normalized in place
C9_Witness ==
    /\ last.called
    /\ world = "typed"
    /\ last.in = Ref("map", 3)
    /\ last.out.err = NoErr
    /\ WorldHeap(world, doc)[3].m.d.k = "int8"
    /\ last.pre[3].m.d.k = "int"

(* C10: in every value a successful Convert returns, every numeric leaf at *)
(* every depth is an int, a float64 or a *big.Int.                         *)
RECURSIVE CanonicalLeaves(_)
CanonicalLeaves(v) ==
    CASE "m" \in DOMAIN v -> \A x \in DOMAIN v.m : CanonicalLeaves(v.m[x])
      [] "e" \in DOMAIN v -> \A i \in DOMAIN v.e : CanonicalLeaves(v.e[i])
      [] OTHER -> ~(v.k \in FixedWidthNumeric)

C10_NumericClosure ==
    (last.called /\ ~last.out.panic /\ last.out.err = NoErr)
        => CanonicalLeaves(Deref(last.out.val, last.out.h))

\* the root of the JSON text ts is a string, a number, a boolean or null
ScalarRoot(ts) ==
    /\ JsonUnmarshal(ts).err = NoErr
    /\ ~(KindOf(JsonUnmarshal(ts).val) \in {"Map", "Slice"})

(* C11: whenever Convert returns without error the root of the returned    *)
(* value is a mapping or a sequence, never a scalar and never nil; and     *)
(* with the built-in converters, Convert of a text, []byte or              *)
(* json.RawMessage document whose root is a bare scalar or null fails.     *)
C11_RootShape ==
    (last.called /\ ~last.out.panic) =>
        /\ last.out.err = NoErr
            => /\ last.out.val # NilV
               /\ KindOf(last.out.val) \in {"Map", "Slice"}
        /\ (nreg = 0 /\ last.in.k \in {"string", "bytes", "rawmsg"}
                /\ ScalarRoot(last.in.s))
            => last.out.err # NoErr

-----------------------------------------------------------------------------
(* UnmarshalJSON as a function of its input: the input is any sequence of *)
(* at most MaxDocLen tokens, or one of the documents of Docs, and          *)
(* UnmarshalJSON is called on it once.                                     *)

\* longest token sequence decoded
MaxDocLen == 3

Tokens == {"{", "}", "[", "]", ":", ",", "\"a\"", "1", "true", "null"}

TokenSeqs == UNION {[1..n -> Tokens] : n \in 0..MaxDocLen}

InitU ==
    /\ converters = registerBuiltinConverters
    /\ world = "docs"
    /\ doc \in TokenSeqs \cup Docs
    /\ heap = <<>>
    /\ intSize = 64
    /\ nreg = 0
    /\ lastReg = Builtins[Len(Builtins)]
    /\ last = NoCall
    /\ convertersMu = Unlocked
    /\ procs = AllIdle
    /\ kube = NoCluster

CallUnmarshalJSON ==
    /\ ~last.called
    /\ last' = [called |-> TRUE, in |-> doc, out |-> UnmarshalJSON(doc)]
    /\ UNCHANGED <<converters, heap, world, doc, intSize, nreg, lastReg>>
    /\ UNCHANGED Sequential

NextU == CallUnmarshalJSON

SpecU == InitU /\ [][NextU]_vars

(* C12: UnmarshalJSON puts every input into exactly one outcome: empty     *)
(* input fails with "a valid Json document is expected"; non-empty input   *)
(* that is not JSON fails with an error wrapping the decoder's; JSON whose *)
(* root is a string, number, boolean or null fails with "a Json Array or   *)
(* Object is required"; only a root object or array succeeds, with the     *)
(* decoded value.  The three errors differ from one another.               *)
C12_DecodeOutcomes ==
    last.called =>
        LET dec == JsonUnmarshal(last.in)
            err == last.out.err
        IN  /\ last.in = <<>> => err = NewError("a valid Json document is expected")
            /\ (last.in # <<>> /\ dec.err # NoErr)
                => /\ Len(err) = 2
                   /\ err[1].id = "unable to unmarshal result"
                   /\ Tail(err) = dec.err
            /\ (last.in # <<>> /\ dec.err = NoErr
                    /\ dec.val.k \in {"string", "float64", "bool", "nil"})
                => err = NewError("a Json Array or Object is required")
            /\ (last.in # <<>> /\ dec.err = NoErr /\ dec.val.k \in {"map", "slice"})
                => (err = NoErr /\ last.out.val = dec.val)
            /\ err = NoErr => dec.val.k \in {"map", "slice"}
            /\ err # NoErr => last.out.val = NilV
            /\ Cardinality({NewError("a valid Json document is expected"),
                            NewError("a Json Array or Object is required"),
                            Wrap("unable to unmarshal result", dec.err)}) = 3

\* the document null has been rejected for its root
C12_Witness ==
    /\ last.called
    /\ last.in = <<"null">>
    /\ last.out.err = ErrNotContainer

(* C13: with the built-in converters, Convert of the text {"a":1} returns  *)
(* with no error a mapping whose leaf a is an int.                         *)
C13_IntegerLiteralIsInt ==
    (last.called /\ nreg = 0 /\ last.in = StrV(DocObject))
        => /\ last.out.err = NoErr
           /\ ~last.out.panic
           /\ last.out.val.k = "map"
           /\ DOMAIN last.out.val.m = {"a"}
           /\ last.out.val.m["a"].k = "int"

(* C13 as amended: the leaf is the float64 1, as json.Unmarshal decodes    *)
(* every JSON number, and normalization leaves a float64 as it is.         *)
C13_IntegerLiteralIsFloat64 ==
    (last.called /\ nreg = 0 /\ last.in = StrV(DocObject))
        => /\ last.out.err = NoErr
           /\ ~last.out.panic
           /\ last.out.val = FreshMap([a |-> FloatV("float64", "1")])

\* the text {"a":1} has been converted by the built-in converters
C13_Witness ==
    /\ last.called
    /\ nreg = 0
    /\ last.in = StrV(<<"{", "\"a\"", ":", "1", "}">>)
    /\ last.out.err = NoErr
    /\ last.out.tried[Len(last.out.tried)] = "StringConverter"

-----------------------------------------------------------------------------
(* Normalization of one numeric leaf: the caller holds a map[string]any    *)
(* with a single entry x, an integer of any Go integer type whose value is *)
(* within Slack of a limit of some integer type, and converts the map.     *)

\* how far from a limit the values of a leaf are taken
Slack == 1

\* limits of the signed and unsigned types of the given number of bits
SignedMin(bits) == 0 - Pow2(Width(bits) - 1)
SignedMax(bits) == Pow2(Width(bits) - 1) - 1
UnsignedMax(bits) == Pow2(Width(bits)) - 1

IntegerKinds ==
    {"int8", "int16", "int32", "int64", "int",
     "uint8", "uint16", "uint32", "uint64", "uint"}

\* number of bits of an integer type on a platform whose int has `size` bits
BitsOf(kind, size) ==
    CASE kind \in {"int8", "uint8"} -> 8
      [] kind \in {"int16", "uint16"} -> 16
      [] kind \in {"int32", "uint32"} -> 32
      [] kind \in {"int64", "uint64"} -> 64
      [] kind \in {"int", "uint"} -> size

IsUnsigned(kind) == kind \in {"uint8", "uint16", "uint32", "uint64", "uint"}

MinOf(kind, size) == IF IsUnsigned(kind) THEN 0 ELSE SignedMin(BitsOf(kind, size))
MaxOf(kind, size) ==
    IF IsUnsigned(kind) THEN UnsignedMax(BitsOf(kind, size))
    ELSE SignedMax(BitsOf(kind, size))

Landmarks ==
    {0} \cup UNION {{SignedMin(b), SignedMax(b), UnsignedMax(b)} : b \in {8, 16, 32, 64}}

\* the values a leaf of the given type takes
LeafValues(kind, size) ==
    {n \in UNION {(l - Slack)..(l + Slack) : l \in Landmarks} :
        MinOf(kind, size) <= n /\ n <= MaxOf(kind, size)}

Leaves(size) == UNION {{IntV(kind, n) : n \in LeafValues(kind, size)} : kind \in IntegerKinds}

InitN ==
    /\ converters = registerBuiltinConverters
    /\ world = "leaf"
    /\ doc = DocEmpty
    /\ intSize \in {32, 64}
    /\ \E leaf \in Leaves(intSize) : heap = <<[m |-> [x |-> leaf]]>>
    /\ nreg = 0
    /\ lastReg = Builtins[Len(Builtins)]
    /\ last = NoCall
    /\ convertersMu = Unlocked
    /\ procs = AllIdle
    /\ kube = NoCluster

NextN == Convert(Ref("map", 1))

SpecN == InitN /\ [][NextN]_vars

\* the leaf before the latest call and the leaf the call returned
LeafIn == last.pre[1].m.x
LeafOut == Deref(last.out.val, last.out.h).m.x

(* C14: an int64, uint64 or uint leaf becomes an int when its value lies   *)
(* between math.MinInt and math.MaxInt and a *big.Int otherwise; either    *)
(* way the result denotes the same integer, for an int of 32 and 64 bits.  *)
C14_WideIntegers ==
    (last.called /\ LeafIn.k \in {"int64", "uint64", "uint"})
        => /\ last.out.err = NoErr
           /\ LeafOut.n = LeafIn.n
           /\ LeafOut.k = IF MinInt(intSize) <= LeafIn.n /\ LeafIn.n <= MaxInt(intSize)
                          THEN "int" ELSE "bigint"

\* the largest int64, converted where int has 32 bits, has become a *big.Int
C14_Witness ==
    /\ last.called
    /\ intSize = 32
    /\ LeafIn = IntV("int64", SignedMax(64))
    /\ LeafOut = IntV("bigint", SignedMax(64))

(* C15: an int8, int16, int32, uint8, uint16 or uint32 leaf becomes an int *)
(* denoting the same integer, for an int of 32 and of 64 bits.             *)
C15_NarrowIntegers ==
    (last.called
        /\ LeafIn.k \in {"int8", "int16", "int32", "uint8", "uint16", "uint32"})
        => /\ last.out.err = NoErr
           /\ LeafOut = IntV("int", LeafIn.n)

-----------------------------------------------------------------------------
(* Sharing between a value and the caller's objects *)

\* addresses of the caller's objects that can be reached from v
RECURSIVE SharedAddrs(_, _)
SharedAddrs(v, h) ==
    IF IsRef(v)
    THEN IF v.a = NilAddr THEN {}
         ELSE LET o == h[v.a]
              IN  {v.a} \cup
                  (CASE "m" \in DOMAIN o ->
                            UNION {SharedAddrs(o.m[x], h) : x \in DOMAIN o.m}
                     [] "e" \in DOMAIN o ->
                            UNION {SharedAddrs(o.e[i], h) : i \in DOMAIN o.e}
                     [] OTHER -> {})
    ELSE CASE "m" \in DOMAIN v -> UNION {SharedAddrs(v.m[x], h) : x \in DOMAIN v.m}
           [] "e" \in DOMAIN v -> UNION {SharedAddrs(v.e[i], h) : i \in DOMAIN v.e}
           [] "items" \in DOMAIN v ->
                 UNION {SharedAddrs(v.items[i], h) : i \in DOMAIN v.items}
           [] "obj" \in DOMAIN v -> SharedAddrs(v.obj, h)
           [] OTHER -> {}

\* a write into a container: a new key of a map, the first element of a slice
Poke(o) ==
    CASE "m" \in DOMAIN o -> [o EXCEPT !.m = MapPut(@, "poked", BoolV(TRUE))]
      [] "e" \in DOMAIN o /\ Len(o.e) > 0 -> [o EXCEPT !.e = [@ EXCEPT ![1] = BoolV(TRUE)]]
      [] OTHER -> o

\* the heap after the holder of v has written into every container of v
MutateThrough(v, h) ==
    [a \in DOMAIN h |-> IF a \in SharedAddrs(v, h) THEN Poke(h[a]) ELSE h[a]]

\* the converter that produced the result of the latest call
Producer == last.out.tried[Len(last.out.tried)]

(* C16: the tree a successful Convert returns is independent of the input  *)
(* and of the tree any other Convert call returns: writing into it changes *)
(* neither the caller's input nor the value another call returned.         *)
C16_IndependentTrees ==
    (last.called /\ ~last.out.panic /\ last.out.err = NoErr)
        => /\ Deref(last.in, MutateThrough(last.out.val, heap)) = Deref(last.in, heap)
           /\ ~IsReader(last.in)
                => LET later == ConvertOver(converters, last.in, heap, intSize)
                   IN  Deref(last.out.val, MutateThrough(later.val, later.h))
                            = Deref(last.out.val, later.h)

(* C16 as amended: a tree produced by a JSON-decoding converter (or by a   *)
(* caller's converter that builds a new mapping) shares nothing with the   *)
(* caller's objects; the pass-through converters return the input itself,  *)
(* the domain-object converters the object's own mapping, and the domain   *)
(* list converter a new sequence of the items' own mappings.               *)
C16_FreshUnlessPassedThrough ==
    (last.called /\ ~last.out.panic /\ last.out.err = NoErr)
        => /\ Producer \in {"StringConverter", "ByteSliceConverter", "RawMessageConverter",
                            "GBytesBufferConverter", "ReaderConverter"} \cup CustomConverters
                => SharedAddrs(last.out.val, heap) = {}
           /\ Producer \in {"MapConverter", "SliceConverter"}
                => last.out.val = last.in
           /\ Producer \in {"UnstructuredConverter", "UnstructuredPtrConverter"}
                => last.out.val = last.in.obj
           /\ Producer = "UnstructuredListPtrConverter"
                => (~IsRef(last.out.val) /\ last.out.val.e = last.in.items)

\* Convert of an Unstructured has returned the object's own mapping
C16_Witness ==
    /\ last.called
    /\ last.in = [k |-> "unstr", obj |-> Ref("map", 1)]
    /\ last.out.err = NoErr
    /\ last.out.val = Ref("map", 1)
    /\ Deref(last.in, MutateThrough(last.out.val, heap)) # Deref(last.in, heap)

(* C17: Convert has no side effect on its input: after Convert(v) returns, *)
(* an input mapping, sequence or domain object and everything reachable    *)
(* from it holds the values, in the numeric types, it held before.         *)
C17_InputUnchanged ==
    (last.called /\ ~last.out.panic
        /\ last.in.k \in {"map", "slice", "tmap", "tslice", "unstr", "unstrPtr", "unstrList"})
        => Deref(last.in, heap) = Deref(last.in, last.pre)

-----------------------------------------------------------------------------
(* Concurrent callers.  Each goroutine makes one call after another, to    *)
(* Convert or to RegisterConverter, and every statement of a call is a     *)
(* step of its own: taking the lock, evaluating the range expression, one  *)
(* converter invocation, the deferred release.                             *)

\* (*RWMutex).RLock: a reader waits while a writer holds or awaits the lock
CanRLockAlways(m) == TRUE
\* a read lock that waits for a writer holding the lock but not for one
\* still awaiting it
CanRLockIgnoringWaiter(m) == ~m.active
CanRLock(m) == m.w = NoThread

\* (*RWMutex).Lock, first half: one writer at a time gets past the mutex w
CanAnnounce(m) == m.w = NoThread

\* (*RWMutex).Lock, second half: the writer waits for the readers to leave
CanAcquireAlways(m, t) == m.w = t
CanAcquire(m, t) == m.w = t /\ m.readers = {}

\* the values and converters the concurrent callers use
ConcHeap == <<[m |-> [count |-> IntV("int", 1)]]>>
ConcInputs == {Ref("map", 1), [k |-> "struct", ty |-> "Person"]}
ConcConverters == {"PersonOk", "PersonErr"}

\* registrations begun and not yet written
Registering == {t \in Threads : procs[t].pc \in {"lock", "lockwait", "write"}}

InitC ==
    /\ converters = registerBuiltinConverters
    /\ world = "conc"
    /\ doc = DocEmpty
    /\ heap = ConcHeap
    /\ intSize = 64
    /\ nreg = 0
    /\ lastReg = Builtins[Len(Builtins)]
    /\ last = NoCall
    /\ convertersMu = Unlocked
    /\ procs = AllIdle
    /\ kube = NoCluster

Frame == <<world, doc, intSize, last, kube>>

\* a goroutine calls Convert(in)
StartConvert(t, in) ==
    /\ procs[t].pc = "idle"
    /\ procs' = [procs EXCEPT ![t] = [pc |-> "rlock", in |-> in]]
    /\ UNCHANGED <<converters, heap, nreg, lastReg, convertersMu>>
    /\ UNCHANGED Frame

\* convertersMu.RLock()
RLock(t) ==
    /\ procs[t].pc = "rlock"
    /\ CanRLock(convertersMu)
    /\ convertersMu' = [convertersMu EXCEPT !.readers = @ \cup {t}]
    /\ procs' = [procs EXCEPT ![t].pc = "range"]
    /\ UNCHANGED <<converters, heap, nreg, lastReg>>
    /\ UNCHANGED Frame

\* for _, converter := range converters: the range expression is evaluated
\* once, and the loop goes over the slice it then found
BeginRange(t) ==
    /\ procs[t].pc = "range"
    /\ procs' = [procs EXCEPT ![t] =
                    [pc |-> "loop", in |-> procs[t].in, list |-> converters,
                     i |-> 1, tried |-> <<>>, begun |-> converters]]
    /\ UNCHANGED <<converters, heap, nreg, lastReg, convertersMu>>
    /\ UNCHANGED Frame

\* converters that call back into the package: one converts a Person by
\* calling Convert on the caller's mapping, the other registers a converter
\* for Person when it first meets one
ReentrantConverters == {"NestedConvert", "SelfRegister"}

Person == [k |-> "struct", ty |-> "Person"]

\* the converter about to be invoked calls back into the package
AtReentrant(p) ==
    /\ p.pc = "loop"
    /\ p.i <= Len(p.list)
    /\ p.list[p.i] \in ReentrantConverters

\* one iteration of the loop, or the return after the last one
Invoke(t) ==
    /\ procs[t].pc = "loop"
    /\ ~AtReentrant(procs[t])
    /\ LET p == procs[t]
       IN  IF p.i > Len(p.list)
           THEN /\ procs' = [procs EXCEPT ![t] =
                        [p EXCEPT !.pc = "return"] @@
                        [val |-> NilV, err |-> UnsupportedError(p.in, heap),
                         panic |-> FALSE]]
                /\ heap' = heap
           ELSE LET r == Apply(p.list[p.i], p.in, heap)
                    tr == Append(p.tried, p.list[p.i])
                    n == normalizeForJQ(r.val, r.h, intSize)
                IN  CASE r.panic ->
                            /\ procs' = [procs EXCEPT ![t] =
                                    [p EXCEPT !.pc = "return", !.tried = tr] @@
                                    [val |-> NilV, err |-> NoErr, panic |-> TRUE]]
                            /\ heap' = r.h
                      [] ~r.panic /\ r.err = NoErr ->
                            /\ procs' = [procs EXCEPT ![t] =
                                    [p EXCEPT !.pc = "return", !.tried = tr] @@
                                    [val |-> n.v, err |-> NoErr, panic |-> FALSE]]
                            /\ heap' = n.h
                      [] ~r.panic /\ r.err # NoErr
                            /\ ~ErrorsIs(r.err, ErrTypeNotSupported) ->
                            /\ procs' = [procs EXCEPT ![t] =
                                    [p EXCEPT !.pc = "return", !.tried = tr] @@
                                    [val |-> NilV, err |-> r.err, panic |-> FALSE]]
                            /\ heap' = r.h
                      [] OTHER ->
                            /\ procs' = [procs EXCEPT ![t] =
                                    [p EXCEPT !.i = p.i + 1, !.tried = tr]]
                            /\ heap' = r.h
    /\ UNCHANGED <<converters, nreg, lastReg, convertersMu>>
    /\ UNCHANGED Frame

\* the deferred convertersMu.RUnlock(), and the return to the caller
RUnlock(t) ==
    /\ procs[t].pc = "return"
    /\ convertersMu' = [convertersMu EXCEPT !.readers = @ \ {t}]
    /\ procs' = [procs EXCEPT ![t] = Idle]
    /\ UNCHANGED <<converters, heap, nreg, lastReg>>
    /\ UNCHANGED Frame

\* a goroutine calls RegisterConverter(converter)
StartRegister(t, converter) ==
    /\ procs[t].pc = "idle"
    /\ nreg + Cardinality(Registering) < MaxCustom
    /\ procs' = [procs EXCEPT ![t] = [pc |-> "lock", converter |-> converter]]
    /\ UNCHANGED <<converters, heap, nreg, lastReg, convertersMu>>
    /\ UNCHANGED Frame

\* convertersMu.Lock(): the writer announces itself, which holds back new
\* readers and other writers
LockAnnounce(t) ==
    /\ procs[t].pc = "lock"
    /\ CanAnnounce(convertersMu)
    /\ convertersMu' = [convertersMu EXCEPT !.w = t]
    /\ procs' = [procs EXCEPT ![t].pc = "lockwait"]
    /\ UNCHANGED <<converters, heap, nreg, lastReg>>
    /\ UNCHANGED Frame

\* convertersMu.Lock() returns once the readers have left
LockAcquire(t) ==
    /\ procs[t].pc = "lockwait"
    /\ CanAcquire(convertersMu, t)
    /\ convertersMu' = [convertersMu EXCEPT !.active = TRUE]
    /\ procs' = [procs EXCEPT ![t].pc = "write"]
    /\ UNCHANGED <<converters, heap, nreg, lastReg>>
    /\ UNCHANGED Frame

\* converters = append([]ConverterFunc{converter}, converters...)
Write(t) ==
    /\ procs[t].pc = "write"
    /\ converters' = Prepend(procs[t].converter, converters)
    /\ nreg' = nreg + 1
    /\ lastReg' = procs[t].converter
    /\ procs' = [procs EXCEPT ![t].pc = "unlock"]
    /\ UNCHANGED <<heap, convertersMu>>
    /\ UNCHANGED Frame

\* the deferred convertersMu.Unlock()
Unlock(t) ==
    /\ procs[t].pc = "unlock"
    /\ convertersMu' = Unlocked @@ [readers |-> convertersMu.readers]
    /\ procs' = [procs EXCEPT ![t] =
                    IF "outer" \in DOMAIN procs[t]
                    THEN [procs[t].outer EXCEPT
                            !.i = @ + 1,
                            !.tried = Append(@, procs[t].outer.list[procs[t].outer.i])]
                    ELSE Idle]
    /\ UNCHANGED <<converters, heap, nreg, lastReg>>
    /\ UNCHANGED Frame

NextC ==
    \E t \in Threads :
        \/ \E in \in ConcInputs : StartConvert(t, in)
        \/ RLock(t)
        \/ BeginRange(t)
        \/ Invoke(t)
        \/ RUnlock(t)
        \/ \E c \in ConcConverters : StartRegister(t, c)
        \/ LockAnnounce(t)
        \/ LockAcquire(t)
        \/ Write(t)
        \/ Unlock(t)

SpecC == InitC /\ [][NextC]_vars

-----------------------------------------------------------------------------
\* goroutines between Lock and Unlock, and between RLock and RUnlock
Writing == {t \in Threads : procs[t].pc \in {"write", "unlock"}}
Reading == {t \in Threads : procs[t].pc \in {"range", "loop", "return"}}

(* C18: at no time is a RegisterConverter call inside its locked section   *)
(* while a Convert call is inside its own or while another                 *)
(* RegisterConverter call is; Convert calls may be inside theirs together. *)
C18_ReadersWriterExclusion ==
    /\ Cardinality(Writing) <= 1
    /\ Writing # {} => Reading = {}

\* two Convert calls iterate over the registry at the same time
C18_Witness ==
    /\ Cardinality({t \in Threads : procs[t].pc = "loop" /\ procs[t].i > 1}) >= 2
    /\ Writing = {}

IsPrefix(s, list) == Len(s) <= Len(list) /\ SubSeq(list, 1, Len(s)) = s

(* C19: the converters a Convert call has tried are a prefix of the        *)
(* registry as it stood when the call began iterating, and no registration *)
(* completes between that instant and the call's return, so the call       *)
(* observes none.                                                          *)
C19_ConsistentSnapshot ==
    \A t \in Threads :
        procs[t].pc \in {"loop", "return"}
            => /\ IsPrefix(procs[t].tried, procs[t].begun)
               /\ procs[t].begun = converters

\* a Convert call is part way through the list it found, after an earlier
\* registration, while a RegisterConverter call waits for the lock
C19_Witness ==
    \E t, u \in Threads :
        /\ procs[t].pc = "loop"
        /\ procs[t].i > 2
        /\ nreg > 0
        /\ procs[u].pc = "lockwait"

(* C20: the registry only grows: a RegisterConverter call puts its         *)
(* converter in front of the list, which is otherwise as it was, and no    *)
(* other step, Convert included, changes the list.                         *)
C20_RegistryOnlyGrows ==
    [][/\ nreg' # nreg
            => /\ nreg' = nreg + 1
               /\ Len(converters') = Len(converters) + 1
               /\ Head(converters') = lastReg'
               /\ Tail(converters') = converters
       /\ nreg' = nreg => converters' = converters]_vars

\* after two registrations and a Convert the built-ins are still there, in
\* their order, behind the two
C20_Witness ==
    /\ nreg = 2
    /\ last.called
    /\ Len(converters) = Len(Builtins) + 2
    /\ SubSeq(converters, 3, Len(converters)) = registerBuiltinConverters

-----------------------------------------------------------------------------
(* Concurrent callers under fair scheduling: a goroutine that can take its *)
(* next step eventually takes it (converters return, and the runtime's     *)
(* mutex hands the lock to a goroutine that keeps waiting for it).  No     *)
(* goroutine is obliged to make a new call.                                *)
\* the next statement of the call goroutine t is in
GoStep(t) ==
    \/ RLock(t)
    \/ BeginRange(t)
    \/ Invoke(t)
    \/ RUnlock(t)
    \/ LockAnnounce(t)
    \/ LockAcquire(t)
    \/ Write(t)
    \/ Unlock(t)

FairC == \A t \in Threads : WF_vars(GoStep(t))

\* the calls made under fair scheduling: Convert of the caller's mapping,
\* which the second built-in tried accepts, and registrations of one converter
NextF ==
    \E t \in Threads :
        \/ StartConvert(t, Ref("map", 1))
        \/ StartRegister(t, "PersonOk")
        \/ GoStep(t)

SpecCFair == InitC /\ [][NextF]_vars /\ FairC

(* C21: every RegisterConverter call eventually completes, whatever calls  *)
(* run beside it (it has no error outcome), and a Convert call that begins *)
(* iterating afterwards goes over a list holding every converter           *)
(* registered so far, the latest first.                                    *)
C21_RegisterCompletes ==
    /\ \A t \in Threads : (procs[t].pc = "lock") ~> (procs[t].pc = "idle")
    /\ [][\A t \in Threads :
            (procs[t].pc = "range" /\ procs'[t].pc = "loop")
                => /\ Len(procs'[t].list) = Len(Builtins) + nreg
                   /\ nreg > 0 => procs'[t].list[1] = lastReg]_vars

\* a Convert call that began after a registration completed has tried the
\* registered converter first
C21_Witness ==
    \E t \in Threads :
        /\ procs[t].pc \in {"loop", "return"}
        /\ nreg > 0
        /\ Len(procs[t].tried) >= 1
        /\ procs[t].tried[1] = lastReg
        /\ lastReg = "PersonOk"

-----------------------------------------------------------------------------
(* The query adapters Match and Extract.  The query engine (gojq) is not   *)
(* part of the package: whether the expression parses, and the results the *)
(* query produces, are inputs of the call, any sequence of at most         *)
(* MaxResults items, each a value or an error.                             *)

\* most results a query produces
MaxResults == 2

QueryError == NewError("query failed")
ParseError == NewError("gojq: parse error")

\* an item of the iterator: v.(error) holds for the items of kind error
ErrorItem == [k |-> "error", err |-> QueryError]
IsError(v) == v.k = "error"

ResultItems == {BoolV(TRUE), BoolV(FALSE), FloatV("float64", "1"), ErrorItem}
ResultSeqs == UNION {[1..n -> ResultItems] : n \in 0..MaxResults}

MatchOutcome(ok, err, h) == [ok |-> ok, err |-> err, h |-> h, panic |-> FALSE]

\* a verdict that takes every result that is not false for a match
MatchVerdictTruthy(results, h) ==
    IF results = <<>> THEN MatchOutcome(FALSE, NoErr, h)
    ELSE IF IsError(results[1]) THEN MatchOutcome(FALSE, results[1].err, h)
    ELSE MatchOutcome(results[1] # BoolV(FALSE), NoErr, h)

\* jqMatcher.Match from it.Next() on
MatchVerdict(results, h) ==
    IF results = <<>> THEN MatchOutcome(FALSE, NoErr, h)
    ELSE IF IsError(results[1]) THEN MatchOutcome(FALSE, results[1].err, h)
    ELSE IF results[1].k = "bool" THEN MatchOutcome(results[1].b, NoErr, h)
    ELSE MatchOutcome(FALSE, NoErr, h)

\* jqMatcher.Match once Convert has returned c
MatchAfter(c, results) ==
    IF c.panic THEN [ok |-> FALSE, err |-> NoErr, h |-> c.h, panic |-> TRUE]
    ELSE IF c.err # NoErr THEN MatchOutcome(FALSE, c.err, c.h)
    ELSE MatchVerdict(results, c.h)

\* the outcome of a Match that converted the value before it found that the
\* expression does not parse
ParseFailureAfter(c) ==
    IF c.panic THEN [ok |-> FALSE, err |-> NoErr, h |-> c.h, panic |-> TRUE]
    ELSE MatchOutcome(FALSE, Wrap("unable to parse expression", ParseError), c.h)

\* a Match that converts the value before it parses the expression
MatchOnConvertFirst(list, in, h, size, parses, results) ==
    IF ~parses THEN ParseFailureAfter(ConvertOver(list, in, h, size))
    ELSE MatchAfter(ConvertOver(list, in, h, size), results)

\* jqMatcher.Match(actual) with the registry holding list
MatchOn(list, in, h, size, parses, results) ==
    IF ~parses
    THEN MatchOutcome(FALSE, Wrap("unable to parse expression", ParseError), h)
    ELSE MatchAfter(ConvertOver(list, in, h, size), results)

\* toString: string, []byte, fmt.Stringer and json.RawMessage have a text
toString(in) ==
    IF in.k \in {"string", "bytes", "rawmsg"}
    THEN [s |-> in.s, ok |-> TRUE]
    ELSE [s |-> <<>>, ok |-> FALSE]

\* runQuery up to query.Run: the first byte decides how the text is decoded
RunQueryError(s) ==
    IF Head(s) \in {"{", "["}
    THEN IF JsonUnmarshal(s).err # NoErr
         THEN Wrap("unable to unmarshal result", JsonUnmarshal(s).err)
         ELSE NoErr
    ELSE NewError("a Json Array or Object is required")

ExtractOutcome(val, err) == [val |-> val, err |-> err]

ExtractRequires(in, h) ==
    <<Layer("extract requires a string, stringer, or []byte", Deref(in, h))>>

\* Extract from it.Next() on
ExtractFirst(results) ==
    IF results = <<>> THEN ExtractOutcome(BoolV(FALSE), NoErr)
    ELSE IF IsError(results[1]) THEN ExtractOutcome(BoolV(FALSE), results[1].err)
    ELSE ExtractOutcome(results[1], NoErr)

\* Extract once a Convert of its input has returned c
ExtractAfter(c, results) ==
    IF c.panic \/ c.err # NoErr THEN ExtractOutcome(NilV, c.err)
    ELSE ExtractFirst(results)

\* an Extract that converts its input with Convert, as Match does
ExtractViaConvert(list, in, h, size, parses, results) ==
    IF ~parses
    THEN ExtractOutcome(NilV, Wrap("unable to parse expression", ParseError))
    ELSE ExtractAfter(ConvertOver(list, in, h, size), results)

\* an Extract without the test for an empty text
ExtractNoEmptyCheck(list, in, h, size, parses, results) ==
    IF ~parses
    THEN ExtractOutcome(NilV, Wrap("unable to parse expression", ParseError))
    ELSE IF ~toString(in).ok THEN ExtractOutcome(BoolV(FALSE), ExtractRequires(in, h))
    ELSE IF toString(in).s = <<>>
    THEN ExtractOutcome(BoolV(FALSE),
                        Wrap("unable to run query", NewError("index out of range")))
    ELSE IF RunQueryError(toString(in).s) # NoErr
    THEN ExtractOutcome(BoolV(FALSE),
                        Wrap("unable to run query", RunQueryError(toString(in).s)))
    ELSE ExtractFirst(results)

\* the function Extract(expression) returns, applied to in; it consults
\* neither the registry nor the platform
ExtractOn(list, in, h, size, parses, results) ==
    IF ~parses
    THEN ExtractOutcome(NilV, Wrap("unable to parse expression", ParseError))
    ELSE IF ~toString(in).ok THEN ExtractOutcome(BoolV(FALSE), ExtractRequires(in, h))
    ELSE IF Len(toString(in).s) = 0 THEN ExtractOutcome(NilV, NoErr)
    ELSE IF RunQueryError(toString(in).s) # NoErr
    THEN ExtractOutcome(BoolV(FALSE),
                        Wrap("unable to run query", RunQueryError(toString(in).s)))
    ELSE ExtractFirst(results)

InitQ ==
    /\ converters = registerBuiltinConverters
    /\ world \in {"docs", "typed"}
    /\ doc \in (IF world = "docs" THEN {DocObject, DocEmpty} ELSE {DocEmpty})
    /\ heap = WorldHeap(world, doc)
    /\ intSize = 64
    /\ nreg = 0
    /\ lastReg = Builtins[Len(Builtins)]
    /\ last = NoCall
    /\ convertersMu = Unlocked
    /\ procs = AllIdle
    /\ kube = NoCluster

\* the values handed to the adapters
QueryInputs(w, d) ==
    IF w = "docs"
    THEN {StrV(d), [k |-> "bytes", s |-> d], Ref("reader", 2), Ref("reader", 3)}
    ELSE {Ref("map", 3), NilV, [k |-> "struct", ty |-> "Person"]}

\* an expression that does not parse has no query, hence no results
Queries ==
    {[parses |-> FALSE, results |-> <<>>]}
        \cup {[parses |-> TRUE, results |-> r] : r \in ResultSeqs}

CallMatch(in, parses, results) ==
    /\ last' = [called |-> TRUE, op |-> "Match", in |-> in, pre |-> heap,
                parses |-> parses, results |-> results,
                out |-> MatchOn(converters, in, heap, intSize, parses, results)]
    /\ heap' = last'.out.h
    /\ UNCHANGED <<converters, world, doc, intSize, nreg, lastReg>>
    /\ UNCHANGED Sequential

CallExtract(in, parses, results) ==
    /\ last' = [called |-> TRUE, op |-> "Extract", in |-> in, pre |-> heap,
                parses |-> parses, results |-> results,
                out |-> ExtractOn(converters, in, heap, intSize, parses, results)]
    /\ UNCHANGED <<heap, converters, world, doc, intSize, nreg, lastReg>>
    /\ UNCHANGED Sequential

NextQ ==
    \E in \in QueryInputs(world, doc), q \in Queries :
        \/ CallMatch(in, q.parses, q.results)
        \/ CallExtract(in, q.parses, q.results)

SpecQ == InitQ /\ [][NextQ]_vars


\* what Convert gives for the latest adapter call's input
ConvOf == ConvertOver(converters, last.in, last.pre, intSize)

MatchCalled == last.called /\ last.op = "Match"
ExtractCalled == last.called /\ last.op = "Extract"

FirstIsError == last.results # <<>> /\ IsError(last.results[1])

(* C22: when the expression parses and Convert succeeds, Match reports true *)
(* exactly when the first result of the query is the boolean true, and it   *)
(* reports false with no error when there is no result or the first result  *)
(* is false or not a boolean; the verdict is that of the first result       *)
(* alone, whatever follows it.                                              *)
C22_FirstResultDecides ==
    (MatchCalled /\ last.parses /\ ~ConvOf.panic /\ ConvOf.err = NoErr) =>
        /\ ~last.out.panic
        /\ last.out.ok = (last.results # <<>> /\ last.results[1] = BoolV(TRUE))
        /\ ~FirstIsError => last.out.err = NoErr
        /\ last.results # <<>> =>
              /\ last.out.ok = MatchVerdict(<<last.results[1]>>, heap).ok
              /\ last.out.err = MatchVerdict(<<last.results[1]>>, heap).err

C22_Witness ==
    /\ MatchCalled /\ last.parses /\ ~ConvOf.panic /\ ConvOf.err = NoErr
    /\ Len(last.results) = MaxResults
    /\ last.results[1] = FloatV("float64", "1")
    /\ last.results[2] = BoolV(TRUE)
    /\ ~last.out.ok /\ last.out.err = NoErr

(* C23: a Match that returns gives an error exactly when the expression     *)
(* does not parse, or Convert fails, or the first result is an error value, *)
(* and then the boolean is false.  A parse failure is reported before the   *)
(* actual value is touched, Convert's error is returned as it is, and an    *)
(* error result is returned as the error.                                   *)
C23_ThreeErrorCases ==
    (MatchCalled /\ ~last.out.panic) =>
        /\ last.out.err # NoErr => ~last.out.ok
        /\ last.out.err # NoErr <=>
              \/ ~last.parses
              \/ ConvOf.err # NoErr
              \/ FirstIsError
        /\ ~last.parses =>
              /\ last.out.err = Wrap("unable to parse expression", ParseError)
              /\ heap = last.pre
        /\ (last.parses /\ ConvOf.err # NoErr) => last.out.err = ConvOf.err
        /\ (last.parses /\ ConvOf.err = NoErr /\ FirstIsError) =>
              last.out.err = last.results[1].err

\* a parse failure over a stream that Convert would have consumed
C23_Witness ==
    /\ MatchCalled /\ ~last.parses
    /\ last.in = Ref("reader", 2)
    /\ ConvOf.h # last.pre
    /\ heap = last.pre
    /\ last.out.err # NoErr


C25_EmptyStringExtractsNothing ==
    (ExtractCalled /\ last.parses /\ last.in = StrV(<<>>)) =>
        /\ last.out = ExtractOutcome(NilV, NoErr)
        /\ ConvOf.err = ErrEmptyDocument
        /\ MatchOn(converters, last.in, last.pre, intSize, TRUE, last.results).err
              = ErrEmptyDocument

C25_Witness ==
    /\ ExtractCalled /\ last.parses /\ last.in = StrV(<<>>)
    /\ last.results # <<>> /\ last.results[1] = BoolV(TRUE)
    /\ last.out.val = NilV /\ last.out.err = NoErr

-----------------------------------------------------------------------------
(* The typed Kubernetes helpers.  The cluster holds at most one resource   *)
(* under the key of the caller's object; its payload is the data of a      *)
(* ConfigMap.  The client is outside the package: each of its calls may    *)
(* fail, which the input `fault` of a helper call decides.                 *)

Keys == {"key1", "key2"}
Absent == "absent"

EmptyData == [key \in Keys |-> Absent]
OriginalData == [EmptyData EXCEPT !["key1"] = "original"]

\* the functions callers pass to Update, each given by the entries it sets
UpdateFuncs == {"setBoth", "setKey1", "deleteKey1", "noop"}

Changes(fn) ==
    CASE fn = "setBoth" -> {<<"key1", "updated">>, <<"key2", "new">>}
      [] fn = "setKey1" -> {<<"key1", "updated">>}
      [] fn = "deleteKey1" -> {<<"key1", Absent>>}
      [] fn = "noop" -> {}

\* updateFunc(current)
ApplyUpdate(fn, data) ==
    [key \in Keys |->
        IF \E c \in Changes(fn) : c[1] = key
        THEN (CHOOSE c \in Changes(fn) : c[1] = key)[2]
        ELSE data[key]]

Faults == {"none", "scheme", "get", "update", "reget"}

NoObject == [k |-> "nil"]

UpdateReturn(obj, err, store, caller, trace) ==
    [obj |-> obj, err |-> err, store |-> store, caller |-> caller, trace |-> trace]

NotFound == NewError("not found")
ServerError == NewError("server error")

\* client.Get: fails when the resource is missing or the server says so
GetError(store, failing) ==
    IF failing THEN ServerError
    ELSE IF ~store.present THEN NotFound
    ELSE NoErr

\* an Update handing the caller's own object to the client and to updateFunc
doUpdateNoCopy(store, caller, fn, fault) ==
    IF fault = "scheme"
    THEN UpdateReturn(NoObject, NewError("no GVK found for object type"),
                      store, caller, <<>>)
    ELSE IF GetError(store, fault = "get") # NoErr
    THEN UpdateReturn(NoObject,
                      Wrap("failed to get resource for update",
                           GetError(store, fault = "get")),
                      store, caller, <<"Get">>)
    ELSE LET current == ApplyUpdate(fn, store.data)
             written == [present |-> TRUE, data |-> current]
         IN  IF fault = "update"
             THEN UpdateReturn(NoObject, Wrap("failed to update resource", ServerError),
                               store, [data |-> current], <<"Get", "updateFunc", "Update">>)
             ELSE IF fault = "reget"
             THEN UpdateReturn(NoObject,
                               Wrap("failed to get updated resource", ServerError),
                               written, [data |-> current],
                               <<"Get", "updateFunc", "Update", "Get">>)
             ELSE UpdateReturn([k |-> "unstrPtr", data |-> written.data], NoErr,
                               written, [data |-> current],
                               <<"Get", "updateFunc", "Update", "Get">>)

\* Matcher.doUpdate: trace lists the calls made on the client and on
\* updateFunc, caller is the caller's object when the call returns
doUpdate(store, caller, fn, fault) ==
    IF fault = "scheme"
    THEN UpdateReturn(NoObject, NewError("no GVK found for object type"),
                      store, caller, <<>>)
    ELSE IF GetError(store, fault = "get") # NoErr
    THEN UpdateReturn(NoObject,
                      Wrap("failed to get resource for update",
                           GetError(store, fault = "get")),
                      store, caller, <<"Get">>)
    ELSE LET current == ApplyUpdate(fn, store.data)
             written == [present |-> TRUE, data |-> current]
         IN  IF fault = "update"
             THEN UpdateReturn(NoObject, Wrap("failed to update resource", ServerError),
                               store, caller, <<"Get", "updateFunc", "Update">>)
             ELSE IF fault = "reget"
             THEN UpdateReturn(NoObject,
                               Wrap("failed to get updated resource", ServerError),
                               written, caller,
                               <<"Get", "updateFunc", "Update", "Get">>)
             ELSE UpdateReturn([k |-> "unstrPtr", data |-> written.data], NoErr,
                               written, caller,
                               <<"Get", "updateFunc", "Update", "Get">>)

InitK ==
    /\ converters = registerBuiltinConverters
    /\ world = "k8s"
    /\ doc = DocEmpty
    /\ heap = WorldHeap(world, doc)
    /\ intSize = 64
    /\ nreg = 0
    /\ lastReg = Builtins[Len(Builtins)]
    /\ last = NoCall
    /\ convertersMu = Unlocked
    /\ procs = AllIdle
    /\ \E data \in {EmptyData, OriginalData}, own \in {EmptyData, OriginalData} :
          kube = [used |-> TRUE,
                  store |-> [present |-> TRUE, data |-> data],
                  caller |-> [data |-> own],
                  call |-> NoCall]

JqState == <<converters, heap, world, doc, intSize, nreg, lastReg, last,
             convertersMu, procs>>

\* Matcher.Update(obj, updateFunc)(ctx)
Update(fn, fault) ==
    /\ kube.used
    /\ LET r == doUpdate(kube.store, kube.caller, fn, fault)
       IN  kube' = [kube EXCEPT
                      !.store = r.store,
                      !.caller = r.caller,
                      !.call = [called |-> TRUE, op |-> "Update", fn |-> fn,
                                fault |-> fault, pre |-> kube.store,
                                caller |-> kube.caller, out |-> r]]
    /\ UNCHANGED JqState

\* Matcher.Delete(obj)(ctx)
Delete(fault) ==
    /\ kube.used
    /\ fault \in {"none", "scheme", "get"}
    /\ LET err == IF fault = "scheme" THEN NewError("no GVK found for object type")
                  ELSE GetError(kube.store, fault = "get")
       IN  kube' = [kube EXCEPT
                      !.store = IF err = NoErr
                                THEN [present |-> FALSE, data |-> EmptyData]
                                ELSE @,
                      !.call = [called |-> TRUE, op |-> "Delete", fault |-> fault,
                                pre |-> kube.store, caller |-> kube.caller,
                                out |-> [err |-> err]]]
    /\ UNCHANGED JqState

NextK ==
    \/ \E fn \in UpdateFuncs, fault \in Faults : Update(fn, fault)
    \/ \E fault \in Faults : Delete(fault)

SpecK == InitK /\ [][NextK]_vars

UpdateCalled == kube.used /\ kube.call.called /\ kube.call.op = "Update"

FullTrace == <<"Get", "updateFunc", "Update", "Get">>

(* C26: Update gets the current resource, applies updateFunc, writes and   *)
(* gets again, in that order.  On success the returned object is the       *)
(* cluster's state after the write and holds every change updateFunc made. *)
(* When the first get fails updateFunc is not called and nothing is        *)
(* written; when the write fails an error and no object are returned.  The *)
(* caller's object is the same after the call as before.                   *)
C26_UpdateSequence ==
    UpdateCalled =>
        LET c == kube.call
            got == c.fault # "scheme" /\ c.fault # "get" /\ c.pre.present
        IN  /\ IsPrefix(c.out.trace, FullTrace)
            /\ c.out.err = NoErr =>
                  /\ c.out.trace = FullTrace
                  /\ c.out.obj.k = "unstrPtr"
                  /\ c.out.obj.data = kube.store.data
                  /\ \A ch \in Changes(c.fn) : c.out.obj.data[ch[1]] = ch[2]
            /\ c.out.err # NoErr => c.out.obj = NoObject
            /\ (c.fault # "scheme" /\ ~got) =>
                  /\ c.out.trace = <<"Get">>
                  /\ kube.store = c.pre
                  /\ c.out.err # NoErr
            /\ (got /\ c.fault = "update") =>
                  /\ c.out.err # NoErr /\ c.out.obj = NoObject
                  /\ kube.store = c.pre
            /\ kube.caller = c.caller

\* a successful update that changed the cluster and not the caller's object
C26_Witness ==
    /\ UpdateCalled
    /\ kube.call.fn = "setBoth"
    /\ kube.call.out.err = NoErr
    /\ kube.call.pre.data = OriginalData
    /\ kube.store.data # kube.call.pre.data
    /\ kube.call.out.obj.data["key2"] = "new"
    /\ kube.caller.data = EmptyData

-----------------------------------------------------------------------------
(* Normalization of a tree: a mapping holding a leaf and a sequence of two *)
(* leaves, each leaf of any kind, canonical or not.                        *)

TreeLeaves ==
    {IntV("int64", 3), IntV("int64", SignedMax(64)), IntV("uint8", UnsignedMax(8)),
     FloatV("float32", "1.5"),
     IntV("int", 1), FloatV("float64", "1"), IntV("bigint", SignedMax(64) + 1),
     StrV(<<"a">>), BoolV(TRUE), NilV}

\* the kinds gojq accepts as they are
CanonicalLeafKinds == {"int", "float64", "bigint", "string", "bool", "nil"}

InitT ==
    /\ converters = registerBuiltinConverters
    /\ world = "leaf"
    /\ doc = DocEmpty
    /\ intSize \in {32, 64}
    /\ \E l1 \in TreeLeaves, l2 \in TreeLeaves, l3 \in TreeLeaves :
          heap = <<[m |-> [a |-> l1, b |-> Ref("slice", 2)]], [e |-> <<l2, l3>>]>>
    /\ nreg = 0
    /\ lastReg = Builtins[Len(Builtins)]
    /\ last = NoCall
    /\ convertersMu = Unlocked
    /\ procs = AllIdle
    /\ kube = NoCluster

NextT ==
    \/ Convert(Ref("map", 1))
    \/ Convert(Ref("slice", 2))

SpecT == InitT /\ [][NextT]_vars

\* b and a have the same keys, lengths and order, the canonical leaves of b
\* are those of a, and the other leaves of b have become canonical numbers
RECURSIVE SameFrame(_, _)
SameFrame(b, a) ==
    CASE "m" \in DOMAIN b ->
            /\ "m" \in DOMAIN a /\ a.k = b.k
            /\ DOMAIN a.m = DOMAIN b.m
            /\ \A x \in DOMAIN b.m : SameFrame(b.m[x], a.m[x])
      [] "e" \in DOMAIN b ->
            /\ "e" \in DOMAIN a /\ a.k = b.k
            /\ Len(a.e) = Len(b.e)
            /\ \A i \in DOMAIN b.e : SameFrame(b.e[i], a.e[i])
      [] OTHER ->
            IF b.k \in CanonicalLeafKinds THEN a = b
            ELSE a.k \in CanonicalNumeric

(* C27: the normalized tree has the keys, the lengths and the order of the *)
(* tree before; a leaf that is an int, float64, *big.Int, string, bool or  *)
(* nil is the same after as before, and every other leaf has become a      *)
(* canonical number; normalizing the result again changes nothing.         *)
C27_OnlyLeavesChange ==
    (last.called /\ ~last.out.panic /\ last.out.err = NoErr) =>
        /\ SameFrame(Deref(last.in, last.pre), Deref(last.out.val, last.out.h))
        /\ normalizeForJQ(last.out.val, last.out.h, intSize)
              = [v |-> last.out.val, h |-> last.out.h]

\* a tree with a canonical and a non-canonical leaf in its sequence
C27_Witness ==
    /\ last.called /\ last.in = Ref("map", 1) /\ last.out.err = NoErr
    /\ last.pre[1].m.a = BoolV(TRUE)
    /\ last.pre[2].e = <<IntV("uint8", UnsignedMax(8)), StrV(<<"a">>)>>
    /\ heap[2].e = <<IntV("int", UnsignedMax(8)), StrV(<<"a">>)>>
    /\ heap[1].m.a = BoolV(TRUE)

-----------------------------------------------------------------------------
(* C28: Convert never aborts: for every input, nil included, and every     *)
(* order of the registry it returns a value or an error.                   *)
C28_ConvertAlwaysReturns ==
    last.called => ~last.out.panic

-----------------------------------------------------------------------------
(* Converters that call back into the package while Convert holds the read *)
(* lock.  The call made inside the converter takes the registry's lock as  *)
(* any call does; when it returns, the converter returns to the loop.      *)

\* the converter at the front calls Convert or RegisterConverter
InvokeReentrant(t) ==
    /\ AtReentrant(procs[t])
    /\ LET p == procs[t]
           skip == [p EXCEPT !.i = p.i + 1, !.tried = Append(p.tried, p.list[p.i])]
       IN  procs' = [procs EXCEPT ![t] =
              CASE p.in # Person -> skip
                [] p.in = Person /\ p.list[p.i] = "NestedConvert" ->
                      [p EXCEPT !.pc = "inner-rlock"]
                [] p.in = Person /\ p.list[p.i] = "SelfRegister"
                        /\ nreg + Cardinality(Registering) < MaxCustom ->
                      [pc |-> "lock", converter |-> "PersonOk", outer |-> p]
                [] OTHER -> skip]
    /\ UNCHANGED <<converters, heap, nreg, lastReg, convertersMu>>
    /\ UNCHANGED Frame

\* convertersMu.RLock() of the Convert call made inside the converter: the
\* goroutine holds a read lock already, and waits like any reader while a
\* writer holds or awaits the lock
InnerRLock(t) ==
    /\ procs[t].pc = "inner-rlock"
    /\ CanRLock(convertersMu)
    /\ procs' = [procs EXCEPT ![t].pc = "inner-convert"]
    /\ UNCHANGED <<converters, heap, nreg, lastReg, convertersMu>>
    /\ UNCHANGED Frame

\* the list without the converters that call back: those answer the
\* sentinel for every value that is not a Person
RECURSIVE PlainFrom(_, _)
PlainFrom(list, i) ==
    IF i > Len(list) THEN <<>>
    ELSE (IF list[i] \in ReentrantConverters THEN <<>> ELSE <<list[i]>>)
            \o PlainFrom(list, i + 1)

Plain(list) == PlainFrom(list, 1)

\* the converter returns what the inner Convert returned, which ends the
\* outer loop
Resume(p, r) ==
    [p EXCEPT !.pc = "return", !.tried = Append(p.tried, p.list[p.i])] @@
        [val |-> r.val, err |-> r.err, panic |-> r.panic]

\* the inner Convert goes over the registry, releases its read lock and
\* returns; the converter hands its outcome to the outer loop
InnerReturn(t) ==
    /\ procs[t].pc = "inner-convert"
    /\ procs' = [procs EXCEPT ![t] =
                    Resume(procs[t],
                           ConvertOver(Plain(converters), Ref("map", 1), heap, intSize))]
    /\ heap' = ConvertOver(Plain(converters), Ref("map", 1), heap, intSize).h
    /\ UNCHANGED <<converters, nreg, lastReg, convertersMu>>
    /\ UNCHANGED Frame

InitR ==
    /\ \E c \in ReentrantConverters :
          /\ converters = Prepend(c, registerBuiltinConverters)
          /\ lastReg = c
    /\ nreg = 1
    /\ world = "conc"
    /\ doc = DocEmpty
    /\ heap = ConcHeap
    /\ intSize = 64
    /\ last = NoCall
    /\ convertersMu = Unlocked
    /\ procs = AllIdle
    /\ kube = NoCluster

NextR ==
    \E t \in Threads :
        \/ \E in \in ConcInputs : StartConvert(t, in)
        \/ StartRegister(t, "PersonOk")
        \/ GoStep(t)
        \/ InvokeReentrant(t)
        \/ InnerRLock(t)
        \/ InnerReturn(t)

SpecR == InitR /\ [][NextR]_vars

\* the goroutine waits for the lock and cannot have it now
Blocked(t) ==
    \/ procs[t].pc \in {"rlock", "inner-rlock"} /\ ~CanRLock(convertersMu)
    \/ procs[t].pc = "lock" /\ ~CanAnnounce(convertersMu)
    \/ procs[t].pc = "lockwait" /\ ~CanAcquire(convertersMu, t)

InCall == {t \in Threads : procs[t].pc # "idle"}

(* C29: the registry lock never deadlocks, also when a converter calls     *)
(* Convert or RegisterConverter: whenever calls are in progress, one of    *)
(* them can take its next step.                                            *)
C29_NoDeadlock ==
    InCall # {} => \E t \in InCall : ~Blocked(t)

-----------------------------------------------------------------------------
(* Writes made under the read lock.  normalizeForJQ assigns every entry of *)
(* every map[string]any and []any it enters, whether the entry changes or  *)
(* not; the containers of a pass-through value are the caller's.           *)

\* addresses of the caller's containers normalizeForJQ(v) assigns into
RECURSIVE WrittenBy(_, _)
WrittenBy(v, h) ==
    IF v.k \notin {"map", "slice"} THEN {}
    ELSE IF IsRef(v)
    THEN IF v.a = NilAddr THEN {}
         ELSE LET o == h[v.a]
              IN  {v.a} \cup
                  (IF "m" \in DOMAIN o
                   THEN UNION {WrittenBy(o.m[x], h) : x \in DOMAIN o.m}
                   ELSE UNION {WrittenBy(o.e[i], h) : i \in DOMAIN o.e})
    ELSE IF "m" \in DOMAIN v
    THEN UNION {WrittenBy(v.m[x], h) : x \in DOMAIN v.m}
    ELSE UNION {WrittenBy(v.e[i], h) : i \in DOMAIN v.e}

\* what the next statement of goroutine t writes: the containers of the
\* value the converter it is about to invoke returns
NextWrites(t) ==
    LET p == procs[t]
    IN  IF p.pc = "loop" /\ p.i <= Len(p.list) /\ ~AtReentrant(p)
        THEN LET r == Apply(p.list[p.i], p.in, heap)
             IN  IF ~r.panic /\ r.err = NoErr THEN WrittenBy(r.val, r.h) ELSE {}
        ELSE {}

(* C30: concurrent Convert calls never race: no two goroutines are about   *)
(* to write, each holding only the read lock, into the same object.        *)
C30_NoConcurrentWrites ==
    \A t, u \in Threads :
        t # u => NextWrites(t) \cap NextWrites(u) = {}

====
